---- MODULE Spec2Model ----
(***************************************************************************)
(* A model of the purge-tool backend: the filtering policy and the safe    *)
(* removal engine of BaseScanner (purge_core/base_scanner.py) and the      *)
(* scan/cleanup orchestration of ScannerManager                            *)
(* (purge_core/scanner_manager.py).                                        *)
(*                                                                         *)
(* Optional values (Optional[...] in the source) are sequences of length   *)
(* at most one: None is <<>> and a present value v is <<v>>.               *)
(* A path is the sequence of the characters of str(path).                  *)
(***************************************************************************)
EXTENDS Integers, Sequences, FiniteSets, TLC

VARIABLES
    scanners,       \* ScannerManager.scanners: the registered scanner instances, in order
    fs,             \* the filesystem: the set of paths that exist
    locked,         \* the paths some running process holds open (psutil's open_files)
    denied,         \* the paths whose unlink/rmdir raises PermissionError
    hidden,         \* the paths whose stat fails with EACCES (an unsearchable parent)
    server,         \* the JSONRPCServer and its input/output streams, <<>> when none runs
    pc,             \* the caller's position: "idle" or "returned"
    req,            \* the request being served (operation and arguments)
    scanResult,     \* the ScanResult scan_system returned, <<>> when none
    cleanupResult,  \* the CleanupResult cleanup returned, <<>> when none
    trace,          \* what the operation did: scanners run, partitions, removal calls
    cand,           \* a candidate handed to _should_include
    config,         \* the ScannerConfig it is judged under
    verdict         \* what _should_include returned, <<>> before the call

vars == <<scanners, fs, locked, denied, hidden, server, pc, req, scanResult, cleanupResult, trace,
          cand, config, verdict>>

None == <<>>
Some(v) == <<v>>
IsSome(o) == o # <<>>
Get(o) == o[1]

Range(s) == {s[i] : i \in 1..Len(s)}

\* ------------------------------------------------------------------ bounds
MaxScanners == 3      \* registered scanners
MaxItems == 2         \* items of one cleanup request
MaxSize == 2          \* candidate sizes and size limits in the filter's inputs
MaxDays == 2          \* min_file_age_days in the filter's inputs
MaxTime == 3          \* the clock (in days) in the filter's inputs

\* ------------------------------------------------------------------ paths
\* The path universe: a temp tree, a log directory and a browser profile.
pT  == <<"/", "t">>
pTA == <<"/", "t", "/", "a">>
pTS == <<"/", "t", "/", "s">>
pTSB == <<"/", "t", "/", "s", "/", "b">>
pL  == <<"/", "l">>
pLX == <<"/", "l", "/", "x">>
pC  == <<"/", "c">>
pCK == <<"/", "c", "/", "k">>

Dirs == {pT, pTS, pL, pC}
Files == {pTA, pTSB, pLX, pCK}
Paths == Dirs \cup Files

\* pathlib: q is strictly below d
IsUnder(q, d) ==
    /\ Len(q) > Len(d) + 1
    /\ SubSeq(q, 1, Len(d)) = d
    /\ q[Len(d) + 1] = "/"

\* ------------------------------------------------------------------ filtering policy
\* fnmatch.fnmatch on POSIX (normcase is the identity): "*" matches any run of
\* characters, "?" any one character, anything else itself; the whole name must match.
RECURSIVE fnmatch(_, _)
fnmatch(name, pat) ==
    IF pat = <<>> THEN name = <<>>
    ELSE IF Head(pat) = "*"
         THEN fnmatch(name, Tail(pat)) \/ (name # <<>> /\ fnmatch(Tail(name), pat))
         ELSE /\ name # <<>>
              /\ (Head(pat) = "?" \/ Head(pat) = Head(name))
              /\ fnmatch(Tail(name), Tail(pat))

\* Python truthiness of Optional[int]: None and 0 are falsy.
TruthyInt(o) == IsSome(o) /\ Get(o) # 0

\* Mutant: the comparison of the age gate reversed.
AgeGateRejects_reversed(item, cfg, now) ==
    /\ IsSome(item.last_modified)
    /\ Get(item.last_modified) < now - cfg.min_file_age_days

\* The age gate of _should_include: item.last_modified > now - timedelta(days).
AgeGateRejects(item, cfg, now) ==
    /\ IsSome(item.last_modified)
    /\ Get(item.last_modified) > now - cfg.min_file_age_days

\* The size gate of _should_include.
SizeGateRejects(item, cfg) ==
    /\ TruthyInt(cfg.max_file_size)
    /\ item.size > Get(cfg.max_file_size)

\* The exclusion gate of _should_include.
ExcludeGateRejects(item, cfg) ==
    \E i \in 1..Len(cfg.exclude_patterns) : fnmatch(item.path, cfg.exclude_patterns[i])

\* The inclusion gate of _should_include (an empty list admits).
IncludeGateAdmits(item, cfg) ==
    \/ cfg.include_patterns = <<>>
    \/ \E i \in 1..Len(cfg.include_patterns) : fnmatch(item.path, cfg.include_patterns[i])

\* Mutant: the inclusion patterns consulted before the exclusion patterns.
should_include_inclusion_first(item, cfg, now) ==
    IF AgeGateRejects(item, cfg, now) THEN FALSE
    ELSE IF SizeGateRejects(item, cfg) THEN FALSE
    ELSE IF cfg.include_patterns # <<>>
    THEN IncludeGateAdmits(item, cfg)
    ELSE ~ExcludeGateRejects(item, cfg)

\* BaseScanner._should_include, at the time `now`.
should_include(item, cfg, now) ==
    IF AgeGateRejects(item, cfg, now) THEN FALSE
    ELSE IF SizeGateRejects(item, cfg) THEN FALSE
    ELSE IF ExcludeGateRejects(item, cfg) THEN FALSE
    ELSE IncludeGateAdmits(item, cfg)

\* ------------------------------------------------------------------ data model
\* models.ScannerConfig (priority is advisory and read nowhere).
ScannerConfig(enabled, maxSize, minAge, excl, incl) ==
    [enabled |-> enabled, max_file_size |-> maxSize, min_file_age_days |-> minAge,
     exclude_patterns |-> excl, include_patterns |-> incl]

\* ScannerConfig(): enabled, no size limit, one day of minimum age, no patterns.
DefaultConfig == ScannerConfig(TRUE, None, 1, <<>>, <<>>)

\* models.WasteItem, the fields the core reads.
WasteItem(path, size, category, mtime) ==
    [path |-> path, size |-> size, category |-> category, last_modified |-> mtime,
     process_locked |-> FALSE]

\* WasteItem.validate_path: Path.is_absolute on POSIX.
is_absolute(path) == path # <<>> /\ Head(path) = "/"

CurrentPlatform == "linux"

\* ------------------------------------------------------------------ scanner classes
ScannerClasses ==
    <<"SystemTempScanner", "SystemLogsScanner", "ChromeScanner", "FirefoxScanner">>

get_category(name) ==
    CASE name = "SystemTempScanner" -> "temp_files"
      [] name = "SystemLogsScanner" -> "system_logs"
      [] name = "ChromeScanner" -> "browser_cache"
      [] name = "FirefoxScanner" -> "browser_cache"

get_supported_platforms(name) ==
    IF name \in {"SystemTempScanner", "SystemLogsScanner"}
    THEN {"all"}
    ELSE {"windows", "linux", "macos"}

is_supported(name) ==
    LET supported == get_supported_platforms(name)
    IN  "all" \in supported \/ CurrentPlatform \in supported

\* _get_file_info: what stat reports of each file (size, age in days).
FileInfo(p) ==
    CASE p = pTA -> [size |-> 1, age |-> 3]
      [] p = pTSB -> [size |-> 2, age |-> 0]
      [] p = pLX -> [size |-> 4, age |-> 2]
      [] p = pCK -> [size |-> 8, age |-> 3]

\* The files each class's _scan_implementation visits, in the order it yields
\* them, with the category it stamps on each.
DiscoveryTable(name) ==
    CASE name = "SystemTempScanner" ->
            <<[path |-> pTSB, category |-> "temp_files"],
              [path |-> pTA, category |-> "temp_files"]>>
      [] name = "SystemLogsScanner" -> <<[path |-> pLX, category |-> "system_logs"]>>
      [] name = "ChromeScanner" -> <<[path |-> pCK, category |-> "browser_cookies"]>>
      [] name = "FirefoxScanner" -> <<>>

\* _scan_implementation: one raw candidate per visited file that exists.
scan_implementation(name, files, now) ==
    LET tab == DiscoveryTable(name)
        Exists(e) == e.path \in files
        found == SelectSeq(tab, Exists)
    IN  [i \in 1..Len(found) |->
            WasteItem(found[i].path, FileInfo(found[i].path).size, found[i].category,
                      Some(now - FileInfo(found[i].path).age))]

Min(a, b) == IF a < b THEN a ELSE b

\* How one scanner's scan() goes wrong, if it does: not at all, in is_supported
\* (before the try of scan), or inside _scan_implementation after `after` yields.
NoFault == [at |-> "never", after |-> 0]
Behaviours(name) ==
    {NoFault, [at |-> "scan", after |-> 0]}
    \cup {[at |-> "discover", after |-> k] : k \in 0..Len(DiscoveryTable(name))}

\* Mutant: what scan had accumulated thrown away when discovery raises.
consume_losing(s, files, now, beh) ==
    LET raw == scan_implementation(s.name, files, now)
        Keep(item) == should_include(item, s.config, now)
    IN  [raised |-> beh.at = "discover",
         items |-> IF beh.at = "discover" THEN <<>> ELSE SelectSeq(raw, Keep)]

\* The loop of scan over _scan_implementation: what it accumulated, and whether
\* the generator raised.
consume(s, files, now, beh) ==
    LET raw == scan_implementation(s.name, files, now)
        seen == IF beh.at = "discover"
                THEN SubSeq(raw, 1, Min(beh.after, Len(raw)))
                ELSE raw
        Keep(item) == should_include(item, s.config, now)
    IN  [raised |-> beh.at = "discover", items |-> SelectSeq(seen, Keep)]

\* Mutant: scan without its try/except, a discovery error escaping to the caller.
scan_propagating(s, files, now, beh) ==
    IF beh.at = "scan" THEN [raised |-> TRUE, items |-> <<>>, invoked |-> FALSE]
    ELSE IF ~is_supported(s.name) THEN [raised |-> FALSE, items |-> <<>>, invoked |-> FALSE]
    ELSE IF ~s.config.enabled THEN [raised |-> FALSE, items |-> <<>>, invoked |-> FALSE]
    ELSE IF consume(s, files, now, beh).raised
    THEN [raised |-> TRUE, items |-> <<>>, invoked |-> TRUE]
    ELSE [raised |-> FALSE, items |-> consume(s, files, now, beh).items, invoked |-> TRUE]

\* BaseScanner.scan: [raised, items, invoked (whether _scan_implementation was
\* called)]; a discovery error is caught in scan itself, which returns what it had
\* accumulated.
scan(s, files, now, beh) ==
    IF beh.at = "scan" THEN [raised |-> TRUE, items |-> <<>>, invoked |-> FALSE]
    ELSE IF ~is_supported(s.name) THEN [raised |-> FALSE, items |-> <<>>, invoked |-> FALSE]
    ELSE IF ~s.config.enabled THEN [raised |-> FALSE, items |-> <<>>, invoked |-> FALSE]
    ELSE [raised |-> FALSE, items |-> consume(s, files, now, beh).items, invoked |-> TRUE]

\* ------------------------------------------------------------------ safe removal engine
\* _is_file_locked: some process has exactly this path among its open files.
is_file_locked(path) == path \in locked

\* The files below a directory: what path.rglob('*') yields that is_file().
FilesUnder(files, d) == {q \in files \cap Files : IsUnder(q, d)}
DirsUnder(files, d) == {q \in files \cap Dirs : IsUnder(q, d)}

\* The try block of _safe_remove: the outcomes [ok, raised, fs] on a filesystem
\* `files`. A directory's files are unlinked in the order rglob yields them, which
\* the platform chooses; a PermissionError (of unlink, or of is_file on a child that
\* cannot be stat'ed) ends the walk with what was unlinked so far. The
\* subdirectories are never removed, so rmdir fails while one is left.
remove_existing(files, path) ==
    IF path \in Files
    THEN IF path \in denied
         THEN {[ok |-> FALSE, raised |-> FALSE, fs |-> files]}
         ELSE {[ok |-> TRUE, raised |-> FALSE, fs |-> files \ {path}]}
    ELSE LET below == FilesUnder(files, path)
             stuck == denied \cup hidden
         IN  IF below \cap stuck # {}
             THEN {[ok |-> FALSE, raised |-> FALSE, fs |-> files \ gone] :
                      gone \in SUBSET (below \ stuck)}
             ELSE IF DirsUnder(files, path) # {} \/ path \in denied
             THEN {[ok |-> FALSE, raised |-> FALSE, fs |-> files \ below]}
             ELSE {[ok |-> TRUE, raised |-> FALSE, fs |-> (files \ below) \ {path}]}

\* path.exists() of a path whose stat fails with EACCES: pathlib re-raises the
\* PermissionError up to Python 3.11 and answers False from 3.12 on.
exists_unreadable(files) ==
    {[ok |-> FALSE, raised |-> TRUE, fs |-> files],
     [ok |-> FALSE, raised |-> FALSE, fs |-> files]}

\* Mutant: a missing path counted as removed (unlink with missing_ok).
safe_remove_missing_ok(files, path) ==
    IF path \in hidden THEN exists_unreadable(files)
    ELSE IF path \notin files THEN {[ok |-> TRUE, raised |-> FALSE, fs |-> files]}
    ELSE IF is_file_locked(path) THEN {[ok |-> FALSE, raised |-> FALSE, fs |-> files]}
    ELSE remove_existing(files, path)

\* Mutant: the hazard check skipped.
safe_remove_ignoring_lock(files, path) ==
    IF path \in hidden THEN exists_unreadable(files)
    ELSE IF path \notin files THEN {[ok |-> FALSE, raised |-> FALSE, fs |-> files]}
    ELSE remove_existing(files, path)

\* BaseScanner._safe_remove: every outcome, as [ok (the value returned), raised
\* (an exception left the call instead), fs (the filesystem it leaves)].
safe_remove(files, path) ==
    IF path \in hidden THEN exists_unreadable(files)
    ELSE IF path \notin files THEN {[ok |-> FALSE, raised |-> FALSE, fs |-> files]}
    ELSE IF is_file_locked(path) THEN {[ok |-> FALSE, raised |-> FALSE, fs |-> files]}
    ELSE remove_existing(files, path)

\* Mutant: the loop of BaseScanner.cleanup without its try/except and ending at the
\* first item that is not removed.
RECURSIVE cleanup_loop_aborting(_, _, _, _)
cleanup_loop_aborting(files, items, removed, calls) ==
    IF items = <<>>
    THEN {[fs |-> files, removed |-> removed, calls |-> calls]}
    ELSE LET path == Head(items).path
         IN  UNION {IF o.ok
                    THEN cleanup_loop_aborting(o.fs, Tail(items), Append(removed, path),
                            Append(calls, [path |-> path, ok |-> o.ok, raised |-> o.raised,
                                           before |-> files, after |-> o.fs]))
                    ELSE {[fs |-> o.fs, removed |-> removed,
                           calls |-> Append(calls, [path |-> path, ok |-> o.ok,
                                                    raised |-> o.raised,
                                                    before |-> files, after |-> o.fs])]}
                    : o \in safe_remove(files, path)}

\* The loop of BaseScanner.cleanup: every way it can go, as
\* [fs, removed (the paths returned), calls (each _safe_remove call: how it ended and
\* the filesystem before and after it)].
\* An exception of _safe_remove is caught and the loop goes on.
RECURSIVE cleanup_loop(_, _, _, _)
cleanup_loop(files, items, removed, calls) ==
    IF items = <<>>
    THEN {[fs |-> files, removed |-> removed, calls |-> calls]}
    ELSE LET path == Head(items).path
         IN  UNION {cleanup_loop(o.fs, Tail(items),
                                 IF o.ok THEN Append(removed, path) ELSE removed,
                                 Append(calls, [path |-> path, ok |-> o.ok,
                                                raised |-> o.raised,
                                                before |-> files, after |-> o.fs]))
                    : o \in safe_remove(files, path)}

\* BaseScanner.cleanup.
scanner_cleanup(s, files, items) ==
    IF ~is_supported(s.name)
    THEN {[fs |-> files, removed |-> <<>>, calls |-> <<>>]}
    ELSE cleanup_loop(files, items, <<>>, <<>>)

\* ------------------------------------------------------------------ orchestrator
RECURSIVE SumSizes(_)
SumSizes(items) == IF items = <<>> THEN 0 ELSE Head(items).size + SumSizes(Tail(items))

\* ScannerManager._filter_scanners, as the indices of the scanners to run.
\* `names` is Optional[List[str]]; `not scanner_names` holds of None and of [].
filter_scanners(regs, names) ==
    LET idx == [i \in 1..Len(regs) |-> i]
        Enabled(i) == regs[i].config.enabled
        Named(i) == regs[i].name \in Range(Get(names)) /\ regs[i].config.enabled
    IN  IF names = None \/ Get(names) = <<>>
        THEN SelectSeq(idx, Enabled)
        ELSE SelectSeq(idx, Named)

\* Mutant: the loop of scan_system without its try/except, ending at the first
\* scanner that raises.
RECURSIVE scan_loop_stops(_, _, _, _, _, _)
scan_loop_stops(regs, todo, files, now, behs, acc) ==
    IF todo = <<>> THEN acc
    ELSE LET i == Head(todo)
             r == scan(regs[i], files, now, behs[i])
         IN  IF r.raised
             THEN [acc EXCEPT !.errors = Append(@, <<"Scanner", regs[i].name, "failed">>),
                              !.ran = Append(@, i)]
             ELSE scan_loop_stops(regs, Tail(todo), files, now, behs,
                     [acc EXCEPT !.items = @ \o r.items, !.ran = Append(@, i)])

\* The loop of scan_system over scanners_to_run.
RECURSIVE scan_loop(_, _, _, _, _, _)
scan_loop(regs, todo, files, now, behs, acc) ==
    IF todo = <<>> THEN acc
    ELSE LET i == Head(todo)
             r == scan(regs[i], files, now, behs[i])
         IN  scan_loop(regs, Tail(todo), files, now, behs,
                 IF r.raised
                 THEN [acc EXCEPT !.errors = Append(@, <<"Scanner", regs[i].name, "failed">>),
                                  !.ran = Append(@, i)]
                 ELSE [acc EXCEPT !.items = @ \o r.items,
                                  !.ran = Append(@, i)])

\* ScannerManager.scan_system: the ScanResult, and `ran`, the scanners it called.
scan_system(regs, files, now, names, behs) ==
    LET acc == scan_loop(regs, filter_scanners(regs, names), files, now, behs,
                         [items |-> <<>>, errors |-> <<>>, ran |-> <<>>])
    IN  [items |-> acc.items,
         errors |-> acc.errors,
         total_found |-> Len(acc.items),
         total_size |-> SumSizes(acc.items),
         ran |-> acc.ran]

\* Mutant: the last registered scanner of the category instead of the first.
owner_last_match(regs, item) ==
    LET match == {i \in 1..Len(regs) : get_category(regs[i].name) = item.category}
    IN  IF match = {} THEN 0 ELSE CHOOSE i \in match : \A j \in match : i >= j

\* The scanner an item is routed to (lines 104-107): the first registered one
\* whose category is the item's, 0 when there is none.
owner(regs, item) ==
    LET match == {i \in 1..Len(regs) : get_category(regs[i].name) = item.category}
    IN  IF match = {} THEN 0 ELSE CHOOSE i \in match : \A j \in match : i <= j

\* items_by_scanner: a dict, so its keys come in the order they were first inserted.
RECURSIVE dispatch_order(_, _, _)
dispatch_order(regs, items, seen) ==
    IF items = <<>> THEN seen
    ELSE LET o == owner(regs, Head(items))
         IN  dispatch_order(regs, Tail(items),
                            IF o = 0 \/ o \in Range(seen) THEN seen ELSE Append(seen, o))

partition(regs, items, i) ==
    LET Mine(item) == owner(regs, item) = i
    IN  SelectSeq(items, Mine)

\* Mutant: the loop of cleanup without its try/except around scanner.cleanup, ending
\* at the first scanner that raises.
RECURSIVE dispatch_loop_aborting(_, _, _, _, _, _)
dispatch_loop_aborting(regs, items, todo, files, raising, acc) ==
    IF todo = <<>> THEN {[acc EXCEPT !.fs = files]}
    ELSE LET i == Head(todo)
             mine == partition(regs, items, i)
         IN  IF i \in raising
             THEN {[acc EXCEPT
                      !.errors = Append(@, <<"Cleanup failed for scanner", regs[i].name>>),
                      !.returned = Append(@, [scanner |-> i, raised |-> TRUE,
                                              removed |-> <<>>]),
                      !.dispatched = Append(@, [scanner |-> i, items |-> mine]),
                      !.fs = files]}
             ELSE UNION {
                    LET Removed(item) == item.path \in Range(r.removed)
                        Failed(item) == item.path \notin Range(r.removed)
                        lost == SelectSeq(mine, Failed)
                    IN  dispatch_loop_aborting(regs, items, Tail(todo), r.fs, raising,
                          [acc EXCEPT
                             !.removed_items = @ \o SelectSeq(mine, Removed),
                             !.failed_items = @ \o
                                [k \in 1..Len(lost) |->
                                    [path |-> lost[k].path, error |-> "Cleanup failed",
                                     scanner |-> regs[i].name]],
                             !.returned = Append(@, [scanner |-> i, raised |-> FALSE,
                                                     removed |-> r.removed]),
                             !.dispatched = Append(@, [scanner |-> i, items |-> mine]),
                             !.calls = @ \o r.calls])
                    : r \in scanner_cleanup(regs[i], files, mine)}

\* The loop of cleanup over items_by_scanner: every way it can go.
\* `raising` are the scanners whose cleanup() raises (in is_supported, before its loop).
RECURSIVE dispatch_loop(_, _, _, _, _, _)
dispatch_loop(regs, items, todo, files, raising, acc) ==
    IF todo = <<>> THEN {[acc EXCEPT !.fs = files]}
    ELSE LET i == Head(todo)
             mine == partition(regs, items, i)
         IN  IF i \in raising
             THEN dispatch_loop(regs, items, Tail(todo), files, raising,
                    [acc EXCEPT
                        !.errors = Append(@, <<"Cleanup failed for scanner", regs[i].name>>),
                        !.returned = Append(@, [scanner |-> i, raised |-> TRUE,
                                                removed |-> <<>>]),
                        !.dispatched = Append(@, [scanner |-> i, items |-> mine])])
             ELSE UNION {
                    LET Removed(item) == item.path \in Range(r.removed)
                        Failed(item) == item.path \notin Range(r.removed)
                        lost == SelectSeq(mine, Failed)
                    IN  dispatch_loop(regs, items, Tail(todo), r.fs, raising,
                          [acc EXCEPT
                             !.removed_items = @ \o SelectSeq(mine, Removed),
                             !.failed_items = @ \o
                                [k \in 1..Len(lost) |->
                                    [path |-> lost[k].path, error |-> "Cleanup failed",
                                     scanner |-> regs[i].name]],
                             !.returned = Append(@, [scanner |-> i, raised |-> FALSE,
                                                     removed |-> r.removed]),
                             !.dispatched = Append(@, [scanner |-> i, items |-> mine]),
                             !.calls = @ \o r.calls])
                    : r \in scanner_cleanup(regs[i], files, mine)}

EmptyCleanup ==
    [removed_items |-> <<>>, failed_items |-> <<>>, errors |-> <<>>,
     returned |-> <<>>, dispatched |-> <<>>, calls |-> <<>>, fs |-> {}]

\* The totals cleanup computes at its end.
cleanup_totals(acc) ==
    [removed_items |-> acc.removed_items,
     failed_items |-> acc.failed_items,
     errors |-> acc.errors,
     total_removed |-> Len(acc.removed_items),
     total_freed |-> SumSizes(acc.removed_items),
     returned |-> acc.returned,
     dispatched |-> acc.dispatched,
     calls |-> acc.calls,
     fs |-> acc.fs]

\* Mutant: dry_run ignored.
cleanup_ignoring_dry_run(regs, files, items, dry_run, raising) ==
    {cleanup_totals(acc) : acc \in dispatch_loop(regs, items,
                                      dispatch_order(regs, items, <<>>),
                                      files, raising, EmptyCleanup)}

\* ScannerManager.cleanup: every outcome, as the CleanupResult with the filesystem
\* it leaves (fs) and what was dispatched, returned and called on the way.
cleanup(regs, files, items, dry_run, raising) ==
    IF dry_run
    THEN {cleanup_totals([EmptyCleanup EXCEPT !.removed_items = items, !.fs = files])}
    ELSE {cleanup_totals(acc) : acc \in dispatch_loop(regs, items,
                                           dispatch_order(regs, items, <<>>),
                                           files, raising, EmptyCleanup)}

\* ------------------------------------------------------------------ inputs
\* The clock at which a scan runs.
Clock == MaxTime

\* What the environment may hold open, and what it may refuse to delete.
LockedSets == {{}, {pTA}}
DeniedSets == {{}, {pTSB}}

\* The scanner_names a caller may pass to scan_system.
ScannerNameArgs ==
    {None, Some(<<>>), Some(<<"SystemTempScanner">>),
     Some(<<"ChromeScanner", "NoSuchScanner">>)}

\* The candidates a caller may pass back to cleanup (by value: any path, category
\* and size, whatever a scan reported).
RequestItems ==
    {WasteItem(pTA, 1, "temp_files", None),
     WasteItem(pTS, 2, "temp_files", None),
     WasteItem(pLX, 4, "browser_cache", None),
     WasteItem(pCK, 8, "browser_cookies", None)}

SeqsUpTo(S, n) == UNION {[1..k -> S] : k \in 0..n}

ClassIndex(name) == CHOOSE i \in 1..Len(ScannerClasses) : ScannerClasses[i] = name

NoRequest == [op |-> "none"]

\* ------------------------------------------------------------------ state machine
Init ==
    /\ scanners = <<>>
    /\ fs = Paths
    /\ locked \in LockedSets
    /\ denied \in DeniedSets
    /\ hidden = {}
    /\ server = None
    /\ pc = "idle"
    /\ req = NoRequest
    /\ scanResult = None
    /\ cleanupResult = None
    /\ trace = None
    /\ cand = None
    /\ config = None
    /\ verdict = None

\* ScannerManager.register_scanner_class(cls, config=ScannerConfig(enabled=...)).
\* The classes are registered in the order both entry points register them.
RegisterScanner(name, enabled) ==
    /\ pc = "idle"
    /\ Len(scanners) < MaxScanners
    /\ \A i \in 1..Len(scanners) : ClassIndex(scanners[i].name) < ClassIndex(name)
    /\ scanners' =
          IF is_supported(name)
          THEN Append(scanners,
                      [name |-> name, config |-> [DefaultConfig EXCEPT !.enabled = enabled]])
          ELSE scanners
    /\ UNCHANGED <<fs, locked, denied, hidden, server, pc, req, scanResult, cleanupResult, trace,
                   cand, config, verdict>>

\* ScannerManager.scan_system(scanner_names).
ScanSystem(names, behs) ==
    /\ pc = "idle"
    /\ LET r == scan_system(scanners, fs, Clock, names, behs)
       IN  /\ scanResult' = Some([items |-> r.items, errors |-> r.errors,
                                  total_found |-> r.total_found,
                                  total_size |-> r.total_size])
           /\ trace' = Some([ran |-> r.ran, before |-> fs])
    /\ req' = [op |-> "scan", names |-> names, behs |-> behs]
    /\ pc' = "returned"
    /\ UNCHANGED <<scanners, fs, locked, denied, hidden, server, cleanupResult, cand, config, verdict>>

\* ScannerManager.cleanup(items, dry_run).
Cleanup(items, dry_run, raising) ==
    /\ pc = "idle"
    /\ \E r \in cleanup(scanners, fs, items, dry_run, raising) :
          /\ cleanupResult' = Some([removed_items |-> r.removed_items,
                                    failed_items |-> r.failed_items,
                                    errors |-> r.errors,
                                    total_removed |-> r.total_removed,
                                    total_freed |-> r.total_freed])
          /\ trace' = Some([dispatched |-> r.dispatched, returned |-> r.returned,
                            calls |-> r.calls, before |-> fs])
          /\ fs' = r.fs
    /\ req' = [op |-> "cleanup", items |-> items, dry_run |-> dry_run,
               raising |-> raising]
    /\ pc' = "returned"
    /\ UNCHANGED <<scanners, locked, denied, hidden, server, scanResult, cand, config, verdict>>

\* The caller takes the report; the manager keeps nothing of the call.
Return ==
    /\ pc = "returned"
    /\ pc' = "idle"
    /\ req' = NoRequest
    /\ scanResult' = None
    /\ cleanupResult' = None
    /\ trace' = None
    /\ UNCHANGED <<scanners, fs, locked, denied, hidden, server, cand, config, verdict>>

\* The behaviours a scan may meet: one per registered scanner, and no fault in a
\* scanner that is not run.
ScanBehaviours(names) ==
    LET run == Range(filter_scanners(scanners, names))
    IN  {behs \in [1..Len(scanners) -> UNION {Behaviours(n) : n \in Range(ScannerClasses)}] :
            \A i \in 1..Len(scanners) :
               /\ behs[i] \in Behaviours(scanners[i].name)
               /\ i \notin run => behs[i] = NoFault}

NoFaults == [i \in 1..Len(scanners) |-> NoFault]

Register(flags) ==
    \E name \in Range(ScannerClasses), enabled \in flags : RegisterScanner(name, enabled)

\* Registration, cleanup and fault-free scans, on every filesystem they lead to.
Next ==
    \/ Register({TRUE})
    \/ \E names \in ScannerNameArgs : ScanSystem(names, NoFaults)
    \/ \E items \in SeqsUpTo(RequestItems, MaxItems) :
          \/ Cleanup(items, TRUE, {})
          \/ \E raising \in SUBSET Range(dispatch_order(scanners, items, <<>>)) :
                Cleanup(items, FALSE, raising)
    \/ Return

Spec == Init /\ [][Next]_vars

\* Registration and scans under every fault, with nothing held open or denied.
InitScan == Init /\ locked = {} /\ denied = {}

NextScan ==
    \/ Register(BOOLEAN)
    \/ \E names \in ScannerNameArgs :
          \E behs \in ScanBehaviours(names) : ScanSystem(names, behs)
    \/ Return

SpecScan == InitScan /\ [][NextScan]_vars

\* ------------------------------------------------------------------ the filtering policy alone
\* Glob patterns, as the characters of the pattern string.
gAll == <<"*">>
gTemp == <<"/", "t", "/", "*">>
gEndX == <<"*", "x">>
gProfile == <<"/", "c", "/", "?">>

ExcludeLists == {<<>>, <<gTemp>>, <<gEndX, gProfile>>}
IncludeLists == {<<>>, <<gAll>>, <<gTemp, pLX>>}

OptionalInts(n) == {None} \cup {Some(k) : k \in 0..n}

FilterItems ==
    {WasteItem(p, size, "other", mtime) :
        p \in Files, size \in 0..MaxSize, mtime \in OptionalInts(MaxTime)}

FilterConfigs ==
    {ScannerConfig(TRUE, maxSize, minAge, excl, incl) :
        maxSize \in OptionalInts(MaxSize), minAge \in 0..MaxDays,
        excl \in ExcludeLists, incl \in IncludeLists}

InitFilter ==
    /\ scanners = <<>>
    /\ fs = Paths
    /\ locked = {}
    /\ denied = {}
    /\ hidden = {}
    /\ server = None
    /\ pc = "idle"
    /\ \E now \in 1..MaxTime : req = [op |-> "filter", now |-> now]
    /\ scanResult = None
    /\ cleanupResult = None
    /\ trace = None
    /\ cand \in FilterItems
    /\ config \in FilterConfigs
    /\ verdict = None

\* BaseScanner._should_include(item) under self.config, at the time req.now.
ShouldInclude ==
    /\ pc = "idle"
    /\ verdict' = Some(should_include(cand, config, req.now))
    /\ pc' = "returned"
    /\ UNCHANGED <<scanners, fs, locked, denied, hidden, server, req, scanResult, cleanupResult, trace,
                   cand, config>>

NextFilter == ShouldInclude

SpecFilter == InitFilter /\ [][NextFilter]_vars

\* ------------------------------------------------------------------ the removal engine alone
\* A path that never exists.
pN == <<"/", "n">>

\* BaseScanner._safe_remove(path), called directly. `earlier` are the paths an
\* earlier call returned true for.
SafeRemove(path) ==
    /\ \E o \in safe_remove(fs, path) :
          /\ fs' = o.fs
          /\ trace' = Some([path |-> path, ok |-> o.ok, before |-> fs,
                            earlier |-> IF trace = None THEN {}
                                        ELSE IF Get(trace).ok
                                             THEN Get(trace).earlier \cup {Get(trace).path}
                                             ELSE Get(trace).earlier])
    /\ req' = [op |-> "safe_remove", path |-> path]
    /\ UNCHANGED <<scanners, locked, denied, hidden, server, pc, scanResult, cleanupResult,
                   cand, config, verdict>>

NextRemove == \E path \in Paths \cup {pN} : SafeRemove(path)

SpecRemove == Init /\ [][NextRemove]_vars

\* ------------------------------------------------------------------ one scanner alone
\* What stat may be refused.
HiddenSets == {{}, {pLX}}

\* The items a caller may hand to a scanner's cleanup: files, a flat directory, a
\* nested directory, a path that does not exist and one that cannot be stat'ed.
BatchItems ==
    {WasteItem(pTA, 1, "temp_files", None),
     WasteItem(pTSB, 2, "temp_files", None),
     WasteItem(pTS, 2, "temp_files", None),
     WasteItem(pT, 3, "temp_files", None),
     WasteItem(pN, 1, "temp_files", None),
     WasteItem(pLX, 4, "system_logs", None)}

\* One scanner instance, cls(config), on a filesystem with its hazards.
InitBatch ==
    /\ \E name \in Range(ScannerClasses), enabled \in BOOLEAN :
          scanners = <<[name |-> name, config |-> [DefaultConfig EXCEPT !.enabled = enabled]]>>
    /\ fs = Paths
    /\ locked \in LockedSets
    /\ denied \in DeniedSets
    /\ hidden \in HiddenSets
    /\ server = None
    /\ pc = "idle"
    /\ req = NoRequest
    /\ scanResult = None
    /\ cleanupResult = None
    /\ trace = None
    /\ cand = None
    /\ config = None
    /\ verdict = None

\* BaseScanner.cleanup(items), called on the instance. `items` of the trace are the
\* caller's items after the call: cleanup and _safe_remove assign to no field of one.
ScannerCleanup(items) ==
    /\ pc = "idle"
    /\ \E r \in scanner_cleanup(scanners[1], fs, items) :
          /\ fs' = r.fs
          /\ trace' = Some([removed |-> r.removed, calls |-> r.calls, before |-> fs,
                            items |-> items])
    /\ req' = [op |-> "scanner_cleanup", items |-> items]
    /\ pc' = "returned"
    /\ UNCHANGED <<scanners, locked, denied, hidden, server, scanResult, cleanupResult,
                   cand, config, verdict>>

\* BaseScanner.scan(), called on the instance.
ScannerScan(beh) ==
    /\ pc = "idle"
    /\ LET r == scan(scanners[1], fs, Clock, beh)
       IN  trace' = Some([raised |-> r.raised, items |-> r.items, invoked |-> r.invoked,
                          before |-> fs])
    /\ req' = [op |-> "scanner_scan", beh |-> beh]
    /\ pc' = "returned"
    /\ UNCHANGED <<scanners, fs, locked, denied, hidden, server, scanResult, cleanupResult,
                   cand, config, verdict>>

NextBatch ==
    \/ \E items \in SeqsUpTo(BatchItems, MaxItems) : ScannerCleanup(items)
    \/ \E beh \in Behaviours(scanners[1].name) : ScannerScan(beh)
    \/ Return

SpecBatch == InitBatch /\ [][NextBatch]_vars

\* ------------------------------------------------------------------ the JSON-RPC server
MaxLines == 3         \* lines the server reads from stdin

\* models.CleanupCategory.
Categories ==
    {"temp_files", "browser_cache", "browser_cookies", "browser_history", "system_logs",
     "application_logs", "recycle_bin", "memory_dumps", "software_cache", "package_cache",
     "thumbnails", "downloads", "other"}

\* WasteItem(**item_data): pydantic validates every field; validate_path refuses a
\* path that is not absolute.
validates(rec) == is_absolute(rec.path) /\ rec.category \in Categories

\* JSONRPCServer.handle_ping.
handle_ping == [kind |-> "pong"]

\* ScannerManager.get_scanner_info, through handle_get_scanners.
handle_get_scanners(regs) ==
    [kind |-> "scanner_info",
     info |-> [i \in 1..Len(regs) |->
                 [name |-> regs[i].name,
                  category |-> get_category(regs[i].name),
                  enabled |-> regs[i].config.enabled,
                  supported |-> is_supported(regs[i].name),
                  platforms |-> get_supported_platforms(regs[i].name)]]]

\* result.model_dump() with convert_paths: every field of the report, the paths as
\* strings, the timestamp still a datetime.
model_dump(kind, report) == [kind |-> kind, timestamp |-> "datetime", body |-> report]

\* Mutant: handle_scan keeping the report it already has.
handle_scan_keeps_first(srv, regs, files, params) ==
    IF params = None
    THEN [raised |-> TRUE, result |-> None, srv |-> srv]
    ELSE LET r == scan_system(regs, files, Clock, Get(params).scanner_names,
                             [i \in 1..Len(regs) |-> NoFault])
             report == [scan_id |-> srv.scans + 1, items |-> r.items, errors |-> r.errors,
                        total_found |-> r.total_found, total_size |-> r.total_size]
         IN  [raised |-> FALSE,
              result |-> Some(model_dump("ScanResult", report)),
              srv |-> [srv EXCEPT !.last_scan_result =
                                     IF @ = None THEN Some(report) ELSE @,
                                  !.scans = @ + 1]]

\* JSONRPCServer.handle_scan: [raised, result, srv (the server afterwards)].
\* params is <<>> for a JSON null, on which params.get raises. scan_id stands for
\* the fresh uuid of every ScanResult.
handle_scan(srv, regs, files, params) ==
    IF params = None
    THEN [raised |-> TRUE, result |-> None, srv |-> srv]
    ELSE LET r == scan_system(regs, files, Clock, Get(params).scanner_names,
                             [i \in 1..Len(regs) |-> NoFault])
             report == [scan_id |-> srv.scans + 1, items |-> r.items, errors |-> r.errors,
                        total_found |-> r.total_found, total_size |-> r.total_size]
         IN  [raised |-> FALSE,
              result |-> Some(model_dump("ScanResult", report)),
              srv |-> [srv EXCEPT !.last_scan_result = Some(report), !.scans = @ + 1]]

\* JSONRPCServer.handle_get_scan_results: the dump of the stored report, or None.
handle_get_scan_results(srv) ==
    IF IsSome(srv.last_scan_result)
    THEN Some(model_dump("ScanResult", Get(srv.last_scan_result)))
    ELSE None

\* The items handle_cleanup rebuilds from the records of the request.
rebuilt(records) ==
    [k \in 1..Len(records) |->
        WasteItem(records[k].path, records[k].size, records[k].category, None)]

\* Mutant: handle_cleanup building and cleaning record by record, up to the first
\* record that fails validation.
handle_cleanup_lazy(regs, files, params) ==
    IF params = None
    THEN {[raised |-> TRUE, result |-> None, fs |-> files]}
    ELSE LET records == Get(params).items
             bad == {k \in 1..Len(records) : ~validates(records[k])}
             first == IF bad = {} THEN Len(records) + 1
                      ELSE CHOOSE k \in bad : \A j \in bad : k <= j
         IN  {[raised |-> bad # {},
               result |-> IF bad # {} THEN None
                          ELSE Some(model_dump("CleanupResult",
                                   [removed_items |-> r.removed_items,
                                    failed_items |-> r.failed_items,
                                    errors |-> r.errors,
                                    total_removed |-> r.total_removed,
                                    total_freed |-> r.total_freed])),
               fs |-> r.fs]
              : r \in cleanup(regs, files, rebuilt(SubSeq(records, 1, first - 1)),
                              Get(params).dry_run, {})}

\* JSONRPCServer.handle_cleanup: every outcome [raised, result, fs]. All the items
\* are built before manager.cleanup is called; the first record that fails
\* validation raises out of the handler.
handle_cleanup(regs, files, params) ==
    IF params = None
    THEN {[raised |-> TRUE, result |-> None, fs |-> files]}
    ELSE LET records == Get(params).items
         IN  IF \E k \in 1..Len(records) : ~validates(records[k])
             THEN {[raised |-> TRUE, result |-> None, fs |-> files]}
             ELSE {[raised |-> FALSE,
                    result |-> Some(model_dump("CleanupResult",
                                 [removed_items |-> r.removed_items,
                                  failed_items |-> r.failed_items,
                                  errors |-> r.errors,
                                  total_removed |-> r.total_removed,
                                  total_freed |-> r.total_freed])),
                    fs |-> r.fs]
                   : r \in cleanup(regs, files, rebuilt(records), Get(params).dry_run, {})}

\* JSONRPCServer._success_response and _error_response. `members` are the keys the
\* response has besides jsonrpc and id; result is <<>> for None.
success_response(id, result) ==
    [jsonrpc |-> "2.0", id |-> id, members |-> {"result"}, result |-> result, code |-> 0]
error_response(id, code) ==
    [jsonrpc |-> "2.0", id |-> id, members |-> {"error"}, result |-> None, code |-> code]

Handlers == {"ping", "scan", "cleanup", "get_scanners", "get_scan_results"}

\* JSONRPCServer.handle_request on a JSON object: every outcome
\* [response, srv, fs]. method is <<>> when the request has none.
handle_request(srv, regs, files, request) ==
    LET id == request.id
        Answer(raised, result, srv2, files2) ==
           [response |-> IF raised THEN error_response(id, -32603)
                         ELSE success_response(id, result),
            srv |-> srv2, fs |-> files2]
    IN  IF request.method = None \/ Get(request.method) \notin Handlers
        THEN {[response |-> error_response(id, -32601), srv |-> srv, fs |-> files]}
        ELSE CASE Get(request.method) = "ping" ->
                    {Answer(FALSE, Some(handle_ping), srv, files)}
               [] Get(request.method) = "get_scanners" ->
                    {Answer(FALSE, Some(handle_get_scanners(regs)), srv, files)}
               [] Get(request.method) = "get_scan_results" ->
                    {Answer(FALSE, handle_get_scan_results(srv), srv, files)}
               [] Get(request.method) = "scan" ->
                    LET o == handle_scan(srv, regs, files, request.params)
                    IN  {Answer(o.raised, o.result, o.srv, files)}
               [] Get(request.method) = "cleanup" ->
                    {Answer(o.raised, o.result, srv, o.fs)
                       : o \in handle_cleanup(regs, files, request.params)}

\* json.dumps(response): the encoder raises TypeError on a datetime.
dumps_raises(response) ==
    /\ IsSome(response.result)
    /\ "timestamp" \in DOMAIN Get(response.result)

\* One iteration of the loop of main after a line was read: every outcome
\* [written (the response line), returned (what handle_request returned, <<>> when
\* it was not called or raised), srv, fs].
serve_line(srv, regs, files, line) ==
    IF line.form = "garbage"
    THEN {[written |-> error_response(None, -32700), returned |-> None,
           srv |-> srv, fs |-> files]}
    ELSE IF line.form = "array"
    THEN {[written |-> error_response(None, -32603), returned |-> None,
           srv |-> srv, fs |-> files]}
    ELSE {[written |-> IF dumps_raises(o.response)
                       THEN error_response(None, -32603)
                       ELSE o.response,
           returned |-> Some(o.response), srv |-> o.srv, fs |-> o.fs]
          : o \in handle_request(srv, regs, files, line)}

\* A relative path.
pRel == <<"t", "/", "a">>

\* The records a client may send to cleanup: two removable files and a record whose
\* path is relative.
CleanupRecords ==
    {[path |-> pTA, size |-> 1, category |-> "temp_files"],
     [path |-> pLX, size |-> 4, category |-> "system_logs"],
     [path |-> pRel, size |-> 1, category |-> "temp_files"]}

Ids == {None, Some(7)}

\* The lines a client may write: text that is not JSON, JSON that is not an object,
\* and request objects (params <<>> is a JSON null).
ObjectLine(method, params, id) ==
    [form |-> "object", method |-> method, params |-> params, id |-> id]

ServerLines ==
    {[form |-> "garbage"], [form |-> "array"]}
    \cup {ObjectLine(m, Some([none |-> TRUE]), id) :
             m \in {None, Some("ping"), Some("get_scanners"), Some("get_scan_results"),
                    Some("nope")},
             id \in Ids}
    \cup {ObjectLine(Some("scan"), params, id) :
             params \in {None} \cup {Some([scanner_names |-> n]) : n \in ScannerNameArgs},
             id \in Ids}
    \cup {ObjectLine(Some("cleanup"), params, id) :
             params \in {None}
                \cup {Some([items |-> items, dry_run |-> d]) :
                         items \in SeqsUpTo(CleanupRecords, MaxItems), d \in BOOLEAN},
             id \in Ids}

\* JSONRPCServer.__init__: the four scanner classes registered with their default
\* config, no report stored; main has read and written nothing.
InitServer ==
    /\ LET Supported(name) == is_supported(name)
           names == SelectSeq(ScannerClasses, Supported)
       IN  scanners = [i \in 1..Len(names) |-> [name |-> names[i], config |-> DefaultConfig]]
    /\ fs = Paths
    /\ locked = {}
    /\ denied = {}
    /\ hidden = {}
    /\ server = Some([last_scan_result |-> None, scans |-> 0, read |-> 0, written |-> 0,
                      running |-> TRUE])
    /\ pc = "idle"
    /\ req = NoRequest
    /\ scanResult = None
    /\ cleanupResult = None
    /\ trace = None
    /\ cand = None
    /\ config = None
    /\ verdict = None

\* One iteration of the loop of main: a line is read, served and answered.
\* `stored` of the trace is the report the server held before the line.
ReadLine(line) ==
    /\ pc = "idle"
    /\ Get(server).running
    /\ Get(server).read < MaxLines
    /\ \E o \in serve_line(Get(server), scanners, fs, line) :
          /\ server' = Some([o.srv EXCEPT !.read = @ + 1, !.written = @ + 1])
          /\ fs' = o.fs
          /\ trace' = Some([written |-> o.written, returned |-> o.returned, before |-> fs,
                            stored |-> Get(server).last_scan_result])
    /\ req' = [op |-> "line", line |-> line]
    /\ pc' = "returned"
    /\ UNCHANGED <<scanners, locked, denied, hidden, scanResult, cleanupResult,
                   cand, config, verdict>>

\* readline returns '' at the end of stdin and the loop ends.
EndOfInput ==
    /\ pc = "idle"
    /\ Get(server).running
    /\ server' = Some([Get(server) EXCEPT !.running = FALSE])
    /\ UNCHANGED <<scanners, fs, locked, denied, hidden, pc, req, scanResult, cleanupResult,
                   trace, cand, config, verdict>>

NextServer ==
    \/ \E line \in ServerLines : ReadLine(line)
    \/ EndOfInput
    \/ Return

SpecServer == InitServer /\ [][NextServer]_vars

\* ------------------------------------------------------------------ a scan and its cleanup
\* The candidates a caller may pass to cleanup, a nested directory among them.
RoundItems == RequestItems \cup {WasteItem(pT, 3, "temp_files", None)}

\* ScannerManager.get_scanner_info().
GetScannerInfo ==
    /\ pc = "idle"
    /\ trace' = Some([info |-> handle_get_scanners(scanners).info, before |-> fs])
    /\ req' = [op |-> "get_scanner_info"]
    /\ pc' = "returned"
    /\ UNCHANGED <<scanners, fs, locked, denied, hidden, server, scanResult, cleanupResult,
                   cand, config, verdict>>

\* ScannerManager.cleanup(report.items, dry_run=False) on the report scan_system
\* just returned. `ran` of the trace are the scanners that scan ran.
CleanupReported ==
    /\ pc = "returned"
    /\ req.op = "scan"
    /\ \E r \in cleanup(scanners, fs, Get(scanResult).items, FALSE, {}) :
          /\ cleanupResult' = Some([removed_items |-> r.removed_items,
                                    failed_items |-> r.failed_items,
                                    errors |-> r.errors,
                                    total_removed |-> r.total_removed,
                                    total_freed |-> r.total_freed])
          /\ trace' = Some([dispatched |-> r.dispatched, returned |-> r.returned,
                            calls |-> r.calls, before |-> fs, ran |-> Get(trace).ran])
          /\ fs' = r.fs
    /\ req' = [op |-> "cleanup", items |-> Get(scanResult).items, dry_run |-> FALSE,
               raising |-> {}]
    /\ UNCHANGED <<scanners, locked, denied, hidden, server, pc, scanResult,
                   cand, config, verdict>>

\* Registration, scans, introspection and cleanups, of any items and of the items a
\* scan reported.
NextRound ==
    \/ Register({TRUE})
    \/ \E names \in ScannerNameArgs : ScanSystem(names, NoFaults)
    \/ GetScannerInfo
    \/ \E items \in SeqsUpTo(RoundItems, MaxItems), dry_run \in BOOLEAN :
          Cleanup(items, dry_run, {})
    \/ CleanupReported
    \/ Return

SpecRound == Init /\ [][NextRound]_vars

\* ------------------------------------------------------------------ claims: scan_system
ScanReturned == pc = "returned" /\ req.op = "scan"

Selected == filter_scanners(scanners, req.names)

\* What scanner i admits when its discovery runs to the end.
Admitted(i) ==
    LET raw == scan_implementation(scanners[i].name, Get(trace).before, Clock)
        Keep(item) == should_include(item, scanners[i].config, Clock)
    IN  SelectSeq(raw, Keep)

\* Three registered, enabled scanners, all run, the middle one raising in discovery.
MiddleRaisesInDiscovery ==
    /\ ScanReturned
    /\ Len(scanners) = 3
    /\ \A i \in 1..3 : scanners[i].config.enabled
    /\ Selected = <<1, 2, 3>>
    /\ req.behs[1] = NoFault
    /\ req.behs[2].at = "discover"
    /\ req.behs[3] = NoFault

OthersReported ==
    \A item \in Range(Admitted(1)) \cup Range(Admitted(3)) :
       item \in Range(Get(scanResult).items)

\* C1 as stated: with the middle of three scanners raising during discovery, the
\* report holds the admitted candidates of the other two and exactly one error.
C1_AsStated ==
    MiddleRaisesInDiscovery => OthersReported /\ Len(Get(scanResult).errors) = 1

\* C1 amended: with the middle of three scanners raising during discovery, the
\* report holds the admitted candidates of the other two and no error entry (scan
\* catches the discovery error itself).
C1_DiscoveryErrorIsolated ==
    MiddleRaisesInDiscovery => OthersReported /\ Get(scanResult).errors = <<>>

C1_Witness ==
    /\ MiddleRaisesInDiscovery
    /\ Admitted(1) # <<>>
    /\ Admitted(3) # <<>>

RaisesInScan(i) == req.behs[i].at = "scan"

RECURSIVE ExpectedItems(_)
ExpectedItems(todo) ==
    IF todo = <<>> THEN <<>>
    ELSE (IF RaisesInScan(Head(todo))
          THEN <<>>
          ELSE scan(scanners[Head(todo)], Get(trace).before, Clock,
                    req.behs[Head(todo)]).items)
         \o ExpectedItems(Tail(todo))

ExpectedScanErrors ==
    LET failing == SelectSeq(Selected, RaisesInScan)
    IN  [k \in 1..Len(failing) |-> <<"Scanner", scanners[failing[k]].name, "failed">>]

\* C2: every selected scanner whose scan() raises adds exactly one error and no
\* candidate; all selected scanners are run, and the report holds, in order, what
\* the scanners that did not raise returned.
C2_ScanFailureIsolated ==
    ScanReturned =>
       /\ Get(trace).ran = Selected
       /\ Get(scanResult).errors = ExpectedScanErrors
       /\ Get(scanResult).items = ExpectedItems(Selected)

C2_Witness ==
    /\ ScanReturned
    /\ Selected = <<1, 2, 3>>
    /\ RaisesInScan(2)
    /\ req.behs[1] = NoFault
    /\ req.behs[3] = NoFault
    /\ Get(trace).ran = <<1, 2, 3>>
    /\ Len(Get(scanResult).errors) = 1
    /\ Len(Get(scanResult).items) = 2

\* ------------------------------------------------------------------ claims: cleanup
CleanupReturned == pc = "returned" /\ req.op = "cleanup"
RealCleanupReturned == CleanupReturned /\ ~req.dry_run

Report == Get(cleanupResult)
Did == Get(trace)

\* The first registered scanner whose category is the item's, 0 when none is.
FirstMatch(item) ==
    IF \E i \in 1..Len(scanners) : get_category(scanners[i].name) = item.category
    THEN CHOOSE i \in 1..Len(scanners) :
            /\ get_category(scanners[i].name) = item.category
            /\ \A j \in 1..(i - 1) : get_category(scanners[j].name) # item.category
    ELSE 0

IsFailure(f, item, i) ==
    /\ f.path = item.path
    /\ f.error = "Cleanup failed"
    /\ f.scanner = scanners[i].name

\* C3 as stated: of the items dispatched to a scanner, those whose path its cleanup
\* returned are in removed_items and the others are in failed_items, with the
\* reason and the scanner's name.
C3_AsStated ==
    RealCleanupReturned =>
       \A k \in 1..Len(Did.dispatched) :
          \A item \in Range(Did.dispatched[k].items) :
             IF item.path \in Range(Did.returned[k].removed)
             THEN item \in Range(Report.removed_items)
             ELSE \E f \in Range(Report.failed_items) :
                     IsFailure(f, item, Did.dispatched[k].scanner)

\* C4 as stated: a requested item whose category no registered scanner owns is not
\* removed and is in failed_items.
C4_AsStated ==
    RealCleanupReturned =>
       \A item \in Range(req.items) :
          FirstMatch(item) = 0 =>
             /\ item \notin Range(Report.removed_items)
             /\ \E f \in Range(Report.failed_items) : f.path = item.path

\* C5: a dry run reports every requested item removed and every byte freed, no
\* failure, and calls no scanner and removes nothing.
C5_DryRunIsPure ==
    (CleanupReturned /\ req.dry_run) =>
       /\ Report.total_removed = Len(req.items)
       /\ Report.total_freed = SumSizes(req.items)
       /\ Report.removed_items = req.items
       /\ Report.failed_items = <<>>
       /\ Did.dispatched = <<>>
       /\ Did.calls = <<>>
       /\ fs = Did.before

C5_Witness ==
    /\ CleanupReturned
    /\ req.dry_run
    /\ Len(req.items) = 2
    /\ \A item \in Range(req.items) : FirstMatch(item) # 0 /\ item.path \in fs
    /\ Report.total_freed > 0

RECURSIVE FreedBy(_, _)
FreedBy(dispatched, returned) ==
    IF dispatched = <<>> THEN 0
    ELSE LET Credited(item) == item.path \in Range(Head(returned).removed)
         IN  SumSizes(SelectSeq(Head(dispatched).items, Credited))
             + FreedBy(Tail(dispatched), Tail(returned))

\* C6: every item goes to the first registered scanner of its category and to no
\* other, the partitions are disjoint, and total_freed is the sum of the sizes of
\* the items whose path their scanner's cleanup returned.
C6_Routing ==
    RealCleanupReturned =>
       /\ \A k \in 1..Len(Did.dispatched) :
             LET Mine(item) == FirstMatch(item) = Did.dispatched[k].scanner
             IN  Did.dispatched[k].items = SelectSeq(req.items, Mine)
       /\ \A item \in Range(req.items) :
             FirstMatch(item) # 0 =>
                Cardinality({k \in 1..Len(Did.dispatched) :
                                item \in Range(Did.dispatched[k].items)}) = 1
       /\ \A k, l \in 1..Len(Did.dispatched) :
             k # l =>
                /\ Did.dispatched[k].scanner # Did.dispatched[l].scanner
                /\ Range(Did.dispatched[k].items) \cap Range(Did.dispatched[l].items) = {}
       /\ Report.total_freed = FreedBy(Did.dispatched, Did.returned)

C6_Witness ==
    /\ RealCleanupReturned
    /\ Len(Did.dispatched) = 2
    /\ Did.dispatched[1].items[1].category # Did.dispatched[2].items[1].category
    /\ \E i, j \in 1..Len(scanners) :
          i < j /\ get_category(scanners[i].name) = get_category(scanners[j].name)
                /\ Did.dispatched[2].scanner = i
    /\ Did.returned[1].removed = <<>>
    /\ Did.returned[2].removed # <<>>
    /\ Report.total_freed = 4

Raised(ret) == ret.raised

\* C17: in a real cleanup every scanner that owns a requested item is called, also
\* after another one raised; each raising scanner leaves one entry in errors, in
\* call order; and every item a scanner that returned was credited with is in
\* removed_items.
C17_CleanupFailureIsolated ==
    RealCleanupReturned =>
       /\ {Did.dispatched[k].scanner : k \in 1..Len(Did.dispatched)}
             = {FirstMatch(item) : item \in Range(req.items)} \ {0}
       /\ Len(Did.returned) = Len(Did.dispatched)
       /\ \A k \in 1..Len(Did.returned) :
             /\ Did.returned[k].scanner = Did.dispatched[k].scanner
             /\ Did.returned[k].raised <=> Did.returned[k].scanner \in req.raising
       /\ LET failing == SelectSeq(Did.returned, Raised)
          IN  Report.errors =
                 [k \in 1..Len(failing) |->
                     <<"Cleanup failed for scanner", scanners[failing[k].scanner].name>>]
       /\ \A k \in 1..Len(Did.dispatched) :
             \A item \in Range(Did.dispatched[k].items) :
                item.path \in Range(Did.returned[k].removed) =>
                   item \in Range(Report.removed_items)

C17_Witness ==
    /\ RealCleanupReturned
    /\ Len(Did.returned) = 2
    /\ Did.returned[1].raised
    /\ ~Did.returned[2].raised
    /\ Did.returned[2].removed # <<>>
    /\ Len(Report.errors) = 1
    /\ Report.total_removed = 1

\* ------------------------------------------------------------------ claims: filtering policy
Judged == IsSome(verdict)

MatchesAny(path, patterns) == \E i \in 1..Len(patterns) : fnmatch(path, patterns[i])

\* The candidate is younger than min_file_age_days.
TooYoung ==
    /\ IsSome(cand.last_modified)
    /\ req.now - Get(cand.last_modified) < config.min_file_age_days

\* What the gates after the age gate decide.
LaterGatesAdmit ==
    /\ ~SizeGateRejects(cand, config)
    /\ ~MatchesAny(cand.path, config.exclude_patterns)
    /\ (config.include_patterns = <<>> \/ MatchesAny(cand.path, config.include_patterns))

\* C7: a candidate younger than min_file_age_days is rejected whatever its size and
\* the size limit and patterns are; one without last_modified is judged by the
\* later gates alone.
C7_AgeGate ==
    Judged =>
       /\ TooYoung => Get(verdict) = FALSE
       /\ cand.last_modified = None => Get(verdict) = LaterGatesAdmit

C7_Witness ==
    /\ Judged
    /\ TooYoung
    /\ LaterGatesAdmit
    /\ MatchesAny(cand.path, config.include_patterns)
    /\ Get(verdict) = FALSE

\* C8: a candidate whose path matches an exclusion pattern is rejected, also when
\* it matches an inclusion pattern.
C8_ExclusionFirst ==
    (Judged /\ MatchesAny(cand.path, config.exclude_patterns)) => Get(verdict) = FALSE

C8_Witness ==
    /\ Judged
    /\ MatchesAny(cand.path, config.exclude_patterns)
    /\ MatchesAny(cand.path, config.include_patterns)
    /\ ~AgeGateRejects(cand, config, req.now)
    /\ ~SizeGateRejects(cand, config)
    /\ Get(verdict) = FALSE

\* C9 as stated: whenever max_file_size is set, 0 included, a candidate larger
\* than it is rejected; when it is unset the size gate rejects nothing.
C9_AsStated ==
    Judged =>
       /\ (IsSome(config.max_file_size) /\ cand.size > Get(config.max_file_size))
             => Get(verdict) = FALSE
       /\ config.max_file_size = None => ~SizeGateRejects(cand, config)

BatchCleanupReturned == pc = "returned" /\ req.op = "scanner_cleanup"
BatchScanReturned == pc = "returned" /\ req.op = "scanner_scan"

Calls == Get(trace).calls

\* C11 as stated: a _safe_remove call on an existing path that a process holds open
\* returns false, leaves the filesystem as it was, and the candidate the caller
\* holds afterwards has process_locked set.
C11_AsStated ==
    BatchCleanupReturned =>
       \A k \in 1..Len(Calls) :
          (Calls[k].path \in locked /\ Calls[k].path \in Calls[k].before) =>
             /\ ~Calls[k].ok
             /\ ~Calls[k].raised
             /\ Calls[k].after = Calls[k].before
             /\ Get(trace).items[k].process_locked

Descendants(files, d) == {q \in files : IsUnder(q, d)}

\* C12 as stated: _safe_remove of an existing, unlocked directory, when no removal
\* is refused, returns true with the directory and every descendant gone; when it
\* returns false, the filesystem is as it was before the call.
C12_AsStated ==
    (IsSome(trace) /\ Get(trace).path \in Dirs \cap Get(trace).before
                   /\ Get(trace).path \notin locked) =>
       LET d == Get(trace).path
           before == Get(trace).before
           all == Descendants(before, d) \cup {d}
       IN  /\ all \cap denied = {} => (Get(trace).ok /\ fs = before \ all)
           /\ ~Get(trace).ok => fs = before

RECURSIVE PathsOf(_)
PathsOf(calls) ==
    IF calls = <<>> THEN <<>> ELSE <<Head(calls).path>> \o PathsOf(Tail(calls))

Succeeded(call) == call.ok

\* C13: cleanup of a supported scanner calls _safe_remove once per requested item,
\* in request order, each on the filesystem the call before it left, whatever the
\* earlier calls returned or raised, and returns the paths of the calls that
\* returned true, in order.
C13_BatchIsolated ==
    (BatchCleanupReturned /\ is_supported(scanners[1].name)) =>
       /\ PathsOf(Calls) = [k \in 1..Len(req.items) |-> req.items[k].path]
       /\ \A k \in 1..Len(Calls) :
             Calls[k].before = IF k = 1 THEN Get(trace).before ELSE Calls[k - 1].after
       /\ Len(Calls) > 0 => fs = Calls[Len(Calls)].after
       /\ Get(trace).removed = PathsOf(SelectSeq(Calls, Succeeded))

C13_Witness ==
    /\ BatchCleanupReturned
    /\ Len(Calls) = 2
    /\ Calls[1].raised
    /\ Calls[2].ok
    /\ Calls[2].path \in Dirs
    /\ Get(trace).removed = <<Calls[2].path>>

Gated == ~is_supported(scanners[1].name) \/ ~scanners[1].config.enabled

\* C15 as stated: scan of an unsupported or disabled scanner returns an empty list
\* without invoking discovery, and its cleanup returns an empty list, calls
\* _safe_remove for nothing and leaves the filesystem as it was.
C15_AsStated ==
    Gated =>
       /\ (BatchScanReturned /\ ~Get(trace).raised) =>
             (Get(trace).items = <<>> /\ ~Get(trace).invoked)
       /\ BatchCleanupReturned =>
             (Get(trace).removed = <<>> /\ Calls = <<>> /\ fs = Get(trace).before)

\* What _scan_implementation of the scanner yields before it raises.
YieldedBeforeError ==
    LET raw == scan_implementation(scanners[1].name, Get(trace).before, Clock)
    IN  [k \in 1..Min(req.beh.after, Len(raw)) |-> raw[k]]

PassesFilter(item) == should_include(item, scanners[1].config, Clock)

\* C14: when _scan_implementation raises after yielding k candidates, scan does not
\* raise and returns, in the order yielded, those of the k that _should_include
\* admits.
C14_PartialResults ==
    (BatchScanReturned /\ req.beh.at = "discover" /\ ~Gated) =>
       /\ ~Get(trace).raised
       /\ Get(trace).invoked
       /\ Get(trace).items = SelectSeq(YieldedBeforeError, PassesFilter)

C14_Witness ==
    /\ BatchScanReturned
    /\ req.beh.at = "discover"
    /\ ~Gated
    /\ Len(YieldedBeforeError) = 2
    /\ Len(Get(trace).items) = 1
    /\ Get(trace).items[1].path = pTA

\* ------------------------------------------------------------------ claims: scanner selection
\* The registered scanners that are enabled and, when a subset is supplied, named
\* in it, in registration order.
EnabledAndNamed ==
    LET idx == [i \in 1..Len(scanners) |-> i]
        Wanted(i) ==
           /\ scanners[i].config.enabled
           /\ IsSome(req.names) => scanners[i].name \in Range(Get(req.names))
    IN  SelectSeq(idx, Wanted)

\* C16 as stated: scan_system runs, once each and in registration order, exactly
\* the enabled scanners, restricted to the supplied names whenever a list of names
\* is supplied, the empty list included.
C16_AsStated == ScanReturned => Get(trace).ran = EnabledAndNamed

\* ------------------------------------------------------------------ claims: the server
LineServed == pc = "returned" /\ req.op = "line"

Line == req.line
IsRequest(m) == Line.form = "object" /\ Line.method = Some(m)

\* What handle_request returned for the line, and what main wrote.
Returned == Get(trace).returned
Written == Get(trace).written

Stored == Get(server).last_scan_result

\* The line is a scan request that handle_request answered with a result.
ScanCompleted ==
    /\ IsRequest("scan")
    /\ IsSome(Returned)
    /\ Get(Returned).members = {"result"}

Registered ==
    /\ Line.form = "object"
    /\ IsSome(Line.method)
    /\ Get(Line.method) \in Handlers

HandlerRaised == Registered /\ Get(Returned).code = -32603

\* C19 as stated: one response line is written per line read; it is error -32700
\* for a line that is not JSON, error -32601 with the request's id for an
\* unregistered method, error -32603 with the request's id when the handler raises,
\* and a result with the request's id for every other request.
C19_AsStated ==
    LineServed =>
       /\ Get(server).written = Get(server).read
       /\ Cardinality(Written.members) = 1
       /\ Line.form = "garbage" => (Written.members = {"error"} /\ Written.code = -32700)
       /\ (Line.form = "object" /\ ~Registered) =>
             (Written.members = {"error"} /\ Written.code = -32601 /\ Written.id = Line.id)
       /\ HandlerRaised =>
             (Written.members = {"error"} /\ Written.code = -32603 /\ Written.id = Line.id)
       /\ (Registered /\ ~HandlerRaised) =>
             (Written.members = {"result"} /\ Written.id = Line.id)

CleanupWithRelativePath ==
    /\ LineServed
    /\ IsRequest("cleanup")
    /\ IsSome(Line.params)
    /\ \E k \in 1..Len(Get(Line.params).items) : ~is_absolute(Get(Line.params).items[k].path)

\* C20: a record with a relative path never validates, and a cleanup request with
\* such a record at any position is answered with an error and removes nothing.
C20_RelativePathRejected ==
    /\ \A rec \in CleanupRecords : ~is_absolute(rec.path) => ~validates(rec)
    /\ CleanupWithRelativePath =>
          /\ Written.members = {"error"}
          /\ Written.code = -32603
          /\ Written.id = Line.id
          /\ fs = Get(trace).before

C20_Witness ==
    /\ CleanupWithRelativePath
    /\ ~Get(Line.params).dry_run
    /\ Len(Get(Line.params).items) = 2
    /\ Get(Line.params).items[1].path = pTA
    /\ pTA \in Get(trace).before
    /\ pTA \in fs
    /\ Written.members = {"error"}

\* ------------------------------------------------------------------ claims: crediting
\* C21 as stated: a real cleanup reports no more removed items than _safe_remove
\* calls returned true, and no path twice among them, also when the request names
\* a path in more than one item.
C21_AsStated ==
    RealCleanupReturned =>
       /\ Len(Report.removed_items) <= Len(SelectSeq(Did.calls, Succeeded))
       /\ \A k, l \in 1..Len(Report.removed_items) :
             Report.removed_items[k].path = Report.removed_items[l].path => k = l

\* ------------------------------------------------------------------ claims: a scan and its cleanup
\* A real cleanup of the items of the scan report just returned.
RoundTrip == RealCleanupReturned /\ IsSome(scanResult)

Justifies(call, p, items) ==
    /\ p \in call.before \ call.after
    /\ p = call.path \/ IsUnder(p, call.path)
    /\ call.path \in call.before
    /\ ~is_file_locked(call.path)
    /\ \E item \in Range(items) : item.path = call.path /\ FirstMatch(item) # 0

\* C23: whatever the manager is asked to do, no path appears, and a path disappears
\* only in a real cleanup, in a removal attempt on a requested item with a
\* registered owner that existed and was not held open, the path being that item's
\* or below it; scans, introspection, dry runs and registration delete nothing.
C23_OnlyRequestedDeleted ==
    [][fs' # fs =>
          /\ fs' \subseteq fs
          /\ pc' = "returned"
          /\ req'.op = "cleanup"
          /\ ~req'.dry_run
          /\ \A p \in fs \ fs' :
                \E k \in 1..Len(Get(trace').calls) :
                   Justifies(Get(trace').calls[k], p, req'.items)]_vars

C23_Witness ==
    /\ RealCleanupReturned
    /\ Len(req.items) = 2
    /\ req.items[1].path = pT
    /\ FirstMatch(req.items[2]) = 0
    /\ req.items[2].path \in fs
    /\ pTA \in locked
    /\ pTA \in Did.before \ fs
    /\ pT \in fs

====
